---- MODULE Spec2Model ----
(***************************************************************************)
(* Verification model of the TUG customer-profitability system            *)
(* (src/管理会计/tug-analysis/app.py).                                     *)
(*                                                                         *)
(* The allocation engine calculate_correct_client_profits is modelled as   *)
(* the sequence of pandas statements it executes, each statement acting on *)
(* a whole column of the table.  The tier mapping classify_customer is     *)
(* modelled with the column assignment that applies it.                    *)
(*                                                                         *)
(* Numbers.  A float64 cell is modelled as a pair <<n, d>>:                *)
(*   d > 0          the rational n/d in lowest terms (money is in dollars) *)
(*   <<0, 0>>       NaN                                                    *)
(*   <<1, 0>>       +inf            <<-1, 0>>   -inf                       *)
(* so that the results of pandas' division by zero are values of the model *)
(* and not errors.  Rounding of finite results is not modelled: equalities *)
(* between finite values are the exact ones the float results approximate. *)
(*                                                                         *)
(* Tables.  A DataFrame is a record [len |-> number of rows, col |-> a     *)
(* function from the names of the columns that exist to sequences of len   *)
(* cells].  "name in df.columns" is name \in DOMAIN df.col.  Raw columns   *)
(* carry the English names of convert_column_names_to_chinese; derived     *)
(* columns are named in English with the source's names in comments.       *)
(***************************************************************************)
EXTENDS Integers, Sequences, FiniteSets, TLC

(***************************************************************************)
(* Bounds of the model                                                     *)
(***************************************************************************)
MaxCustomers == 2      \* rows in the customer table: 1..MaxCustomers
RevUnit == 100         \* a product revenue is 0 or RevUnit dollars
CostUnit == 60         \* a cost of goods sold is 0 or CostUnit dollars
CountUnit == 1         \* an activity count is 0 or CountUnit
LowExpense == 40       \* total other expenses of a lean period, in dollars
HighExpense == 80      \* total other expenses of a costly period, in dollars
MaxScored == 2         \* rows of the scored table in the tier specification
ProbScale == 2         \* probabilities are k / (10 * ProbScale)
MaxTabCustomers == 6   \* rows of the table the prediction tab works on

(***************************************************************************)
(* float64 arithmetic on the cells                                         *)
(***************************************************************************)
Abs(i) == IF i < 0 THEN -i ELSE i

Sign(i) == IF i > 0 THEN 1 ELSE IF i < 0 THEN -1 ELSE 0

RECURSIVE GCD(_, _)
GCD(a, b) == IF b = 0 THEN a ELSE GCD(b, a % b)

NAN == <<0, 0>>

ZERO == <<0, 1>>

R(i) == <<i, 1>>

Rat(n, d) == LET g == GCD(Abs(n), d) IN <<n \div g, d \div g>>

IsFinite(x) == x[2] > 0

IsNaN(x) == x = NAN

Neg(x) == <<-x[1], x[2]>>

Add(a, b) ==
    IF IsFinite(a) /\ IsFinite(b)
    THEN LET g == GCD(a[2], b[2])
             l == (a[2] \div g) * b[2]
         IN  Rat(a[1] * (l \div a[2]) + b[1] * (l \div b[2]), l)
    ELSE IF IsNaN(a) \/ IsNaN(b) THEN NAN
    ELSE IF IsFinite(a) THEN b
    ELSE IF IsFinite(b) THEN a
    ELSE IF a = b THEN a ELSE NAN

Sub(a, b) == Add(a, Neg(b))

Mul(a, b) ==
    IF IsFinite(a) /\ IsFinite(b)
    THEN LET g1 == GCD(Abs(a[1]), b[2])
             g2 == GCD(Abs(b[1]), a[2])
         IN  IF a[1] = 0 \/ b[1] = 0 THEN ZERO
             ELSE <<(a[1] \div g1) * (b[1] \div g2), (a[2] \div g2) * (b[2] \div g1)>>
    ELSE IF IsNaN(a) \/ IsNaN(b) \/ a[1] = 0 \/ b[1] = 0 THEN NAN
    ELSE <<Sign(a[1]) * Sign(b[1]), 0>>

\* a / b as pandas computes it: x/0 is +-inf, 0/0 is NaN, no exception
Div(a, b) ==
    IF IsNaN(a) \/ IsNaN(b) THEN NAN
    ELSE IF ~IsFinite(b) THEN (IF IsFinite(a) THEN ZERO ELSE NAN)
    ELSE IF b[1] = 0 THEN <<Sign(a[1]), 0>>
    ELSE IF ~IsFinite(a) THEN <<Sign(a[1]) * Sign(b[1]), 0>>
    ELSE Mul(a, <<Sign(b[1]) * b[2], Abs(b[1])>>)

\* a > b, a >= b: every comparison with NaN is false
GT(a, b) ==
    /\ ~IsNaN(a) /\ ~IsNaN(b)
    /\ IF IsFinite(a) /\ IsFinite(b) THEN a[1] * b[2] > b[1] * a[2]
       ELSE IF IsFinite(a) THEN b[1] < 0
       ELSE IF IsFinite(b) THEN a[1] > 0
       ELSE a[1] > b[1]

GE(a, b) == ~IsNaN(a) /\ ~IsNaN(b) /\ (a = b \/ GT(a, b))

(***************************************************************************)
(* DataFrame helpers                                                       *)
(***************************************************************************)
Columns(df) == DOMAIN df.col

Index(df) == 1 .. df.len

\* df[name] = vals   (creates or overwrites the column)
SetCol(df, name, vals) ==
    [df EXCEPT !.col = [c \in (DOMAIN df.col) \cup {name} |->
                            IF c = name THEN vals ELSE df.col[c]]]

\* a column holding the same scalar in every row:  df[name] = 0
Broadcast(df, x) == [i \in Index(df) |-> x]

\* the sum of the first k cells; like Series.sum() it skips NaN cells
RECURSIVE SumUpTo(_, _)
SumUpTo(s, k) ==
    IF k = 0 THEN ZERO
    ELSE IF IsNaN(s[k]) THEN SumUpTo(s, k - 1)
    ELSE Add(SumUpTo(s, k - 1), s[k])

\* a mis-aggregation that reads the column before its last row is in
SeriesSumPartial(s) == SumUpTo(s, Len(s) - 1)

\* Series.sum()
SeriesSum(s) == SumUpTo(s, Len(s))

(***************************************************************************)
(* Rate tables and column names                                            *)
(***************************************************************************)
\* products: 瓦楞纸板收入, 瓦楞纸箱收入, 模切盒收入, 组合纸箱收入, 重型瓦楞纸收入
products == <<"Cor_Bo", "Cor_Ca", "Die_Bo", "Ass_Ca", "HD_Cor">>

\* product_costs: 瓦楞纸板成本 ... 重型瓦楞纸成本
product_costs == <<"Cor_Bo_COGS", "Cor_Ca_COGS", "Die_Bo_COGS", "Ass_Ca_COGS", "HD_Cor_COGS">>

\* the keys of activity_rates in the order the dict lists them:
\* 运输次数, 订单数量, 加急订单数量, 问询次数, 设计小时数
activities == <<"Ships_count", "Orders_count", "ExpOr_count", "Queries_count", "Design_count">>

\* a table that charges every activity the rate of a shipment
activity_ratesFlat ==
    [a \in {"Ships_count", "Orders_count", "ExpOr_count", "Queries_count", "Design_count"} |->
        Rat(700, 100)]

\* lines 176-182
activity_rates ==
    ("Ships_count" :> Rat(700, 100)) @@ ("Orders_count" :> Rat(17, 100)) @@
    ("ExpOr_count" :> Rat(26700, 100)) @@ ("Queries_count" :> Rat(3300, 100)) @@
    ("Design_count" :> Rat(7000, 100))

\* a table that pays 3% on every product
product_commission_ratesFlat ==
    [p \in {"Cor_Bo", "Cor_Ca", "Die_Bo", "Ass_Ca", "HD_Cor"} |-> Rat(3, 100)]

\* lines 195-201
product_commission_rates ==
    ("Cor_Bo" :> Rat(3, 100)) @@ ("Cor_Ca" :> Rat(3, 100)) @@ ("Die_Bo" :> Rat(2, 100)) @@
    ("Ass_Ca" :> Rat(1, 100)) @@ ("HD_Cor" :> Rat(1, 100))

\* f'{activity}成本'
ActivityCostColumn ==
    ("Ships_count" :> "Ships_count_cost") @@ ("Orders_count" :> "Orders_count_cost") @@
    ("ExpOr_count" :> "ExpOr_count_cost") @@ ("Queries_count" :> "Queries_count_cost") @@
    ("Design_count" :> "Design_count_cost")

\* f'{product}佣金'
CommissionColumn ==
    ("Cor_Bo" :> "Cor_Bo_commission") @@ ("Cor_Ca" :> "Cor_Ca_commission") @@
    ("Die_Bo" :> "Die_Bo_commission") @@ ("Ass_Ca" :> "Ass_Ca_commission") @@
    ("HD_Cor" :> "HD_Cor_commission")

Range(s) == {s[i] : i \in DOMAIN s}

OptionalColumns == Range(products) \cup Range(product_costs) \cup Range(activities)

\* the columns of a complete customer table (客户ID and the fifteen inputs)
RawColumns == {"ClientID"} \cup OptionalColumns

(***************************************************************************)
(* The statements of calculate_correct_client_profits, as functions of the *)
(* table they act on                                                       *)
(***************************************************************************)
\* a strict reading of the input that poisons the total when a column is absent
AccumColsStrict(df, names, k) ==
    IF \A j \in 1 .. k : names[j] \in Columns(df)
    THEN [i \in Index(df) |->
            SumUpTo([j \in 1 .. k |-> df.col[names[j]][i]], k)]
    ELSE Broadcast(df, NAN)

\* df[target] = 0; for name in names: if name in df.columns: df[target] += df[name]
RECURSIVE AccumCols(_, _, _)
AccumCols(df, names, k) ==
    IF k = 0 THEN Broadcast(df, ZERO)
    ELSE LET prev == AccumCols(df, names, k - 1)
         IN  IF names[k] \in Columns(df)
             THEN [i \in Index(df) |-> Add(prev[i], df.col[names[k]][i])]
             ELSE prev

\* identifiers numbered from 0, as range(len) would
EnsureClientIDZeroBased(df) ==
    IF "ClientID" \notin Columns(df)
    THEN SetCol(df, "ClientID", [i \in Index(df) |-> R(i - 1)])
    ELSE df

\* lines 149-153: copy, and 客户ID = range(1, len+1) when the column is absent
EnsureClientID(df) ==
    IF "ClientID" \notin Columns(df)
    THEN SetCol(df, "ClientID", [i \in Index(df) |-> R(i)])
    ELSE df

\* line 173: 毛利率 = 毛利 / 总收入
GrossMarginRate(gm, rev) == Div(gm, rev)

\* lines 159-173: 总收入, 总销售成本, 毛利, 毛利率
GrossMarginColumns(df) ==
    LET d1 == SetCol(df, "TotalRevenue", AccumCols(df, products, Len(products)))
        d2 == SetCol(d1, "TotalCOGS", AccumCols(d1, product_costs, Len(product_costs)))
        d3 == SetCol(d2, "GrossMargin",
                     [i \in Index(d2) |-> Sub(d2.col["TotalRevenue"][i], d2.col["TotalCOGS"][i])])
    IN  SetCol(d3, "GrossMarginRate",
               [i \in Index(d3) |->
                    GrossMarginRate(d3.col["GrossMargin"][i], d3.col["TotalRevenue"][i])])

\* lines 184-188: 五项变动费用 and the per-activity cost columns
RECURSIVE ActivityCostColumns(_, _)
ActivityCostColumns(df, k) ==
    IF k = 0 THEN SetCol(df, "FiveActivityCost", Broadcast(df, ZERO))
    ELSE LET d == ActivityCostColumns(df, k - 1)
             a == activities[k]
         IN  IF a \in Columns(d)
             THEN LET c  == [i \in Index(d) |-> Mul(d.col[a][i], activity_rates[a])]
                      d1 == SetCol(d, ActivityCostColumn[a], c)
                  IN  SetCol(d1, "FiveActivityCost",
                             [i \in Index(d1) |-> Add(d1.col["FiveActivityCost"][i], c[i])])
             ELSE d

\* lines 204-209: 分摊销售佣金 and the per-product commission columns
RECURSIVE CommissionColumns(_, _)
CommissionColumns(df, k) ==
    IF k = 0 THEN SetCol(df, "SalesCommission", Broadcast(df, ZERO))
    ELSE LET d == CommissionColumns(df, k - 1)
             p == products[k]
         IN  IF p \in Columns(d) /\ p \in DOMAIN product_commission_rates
             THEN LET c  == [i \in Index(d) |-> Mul(d.col[p][i], product_commission_rates[p])]
                      d1 == SetCol(d, CommissionColumn[p], c)
                  IN  SetCol(d1, "SalesCommission",
                             [i \in Index(d1) |-> Add(d1.col["SalesCommission"][i], c[i])])
             ELSE d

\* a residual that forgets the commission already charged to the customers
RemainingFixedCostNoCommission(remaining_other, commission) == remaining_other

\* line 215
RemainingFixedCost(remaining_other, commission) == Sub(remaining_other, commission)

\* a rate per customer instead of per dollar of revenue
FixedCostRatePerCustomer(df, remaining, revenue) == Div(remaining, R(df.len))

\* line 220
FixedCostRate(df, remaining, revenue) == Div(remaining, revenue)

\* an equal split of the residual over the customers
AllocatedFixedCostEqualSplit(df, remaining, revenue) ==
    IF GT(revenue, ZERO)
    THEN [i \in Index(df) |-> Div(remaining, R(df.len))]
    ELSE Broadcast(df, ZERO)

\* an allocation that divides by the population revenue whatever it is
AllocatedFixedCostUnguarded(df, remaining, revenue) ==
    [i \in Index(df) |->
        Mul(df.col["TotalRevenue"][i], FixedCostRate(df, remaining, revenue))]

\* lines 219-223: 分摊固定成本
AllocatedFixedCost(df, remaining, revenue) ==
    IF GT(revenue, ZERO)
    THEN [i \in Index(df) |->
            Mul(df.col["TotalRevenue"][i], FixedCostRate(df, remaining, revenue))]
    ELSE Broadcast(df, ZERO)

\* a net profit that leaves the five activity costs out
NetProfitNoActivityCost(df) ==
    [i \in Index(df) |->
        Sub(Sub(df.col["GrossMargin"][i], df.col["AllocatedFixedCost"][i]),
            df.col["SalesCommission"][i])]

\* a net profit that leaves the commission out
NetProfitNoCommission(df) ==
    [i \in Index(df) |->
        Sub(Sub(df.col["GrossMargin"][i], df.col["FiveActivityCost"][i]),
            df.col["AllocatedFixedCost"][i])]

\* lines 226-231: 净利润
NetProfit(df) ==
    [i \in Index(df) |->
        Sub(Sub(Sub(df.col["GrossMargin"][i], df.col["FiveActivityCost"][i]),
                df.col["AllocatedFixedCost"][i]),
            df.col["SalesCommission"][i])]

\* line 234: 净利润率 = 净利润 / 总收入
NetMarginRate(df) ==
    [i \in Index(df) |-> Div(df.col["NetProfit"][i], df.col["TotalRevenue"][i])]

(***************************************************************************)
(* Inputs: the customer tables and expense totals the model draws from     *)
(***************************************************************************)
\* A customer trades in one product line p: revenue and cost of goods sold
\* of product p and the count of the p-th activity; every other input is 0.
\* rev says whether the customer bought anything, load whether it cost
\* anything (cost of goods sold and activity).
Rows == [p : 1 .. Len(products), rev : {0, 1}, load : {0, 1}]

RowCode(r) == (r.p * 2 + r.rev) * 2 + r.load

\* the statements act on whole columns, so the order of the rows is immaterial:
\* one representative of each population
Populations ==
    UNION {{pop \in [1 .. n -> Rows] :
                \A i \in 1 .. n - 1 : RowCode(pop[i]) <= RowCode(pop[i + 1])} :
           n \in 1 .. MaxCustomers}

Cell(r, c) ==
    IF c = products[r.p] THEN R(r.rev * RevUnit)
    ELSE IF c = product_costs[r.p] THEN R(r.load * CostUnit)
    ELSE IF c = activities[r.p] THEN R(r.load * CountUnit)
    ELSE ZERO

\* the shapes of the uploaded sheet: which columns it lacks, and whether the
\* identifier cell of its first row is blank
InputVariants ==
    { [absent |-> {}, blank |-> FALSE],
      [absent |-> {}, blank |-> TRUE],
      [absent |-> {"ClientID"}, blank |-> FALSE],
      [absent |-> {"Cor_Ca"}, blank |-> FALSE],
      [absent |-> {"Die_Bo_COGS"}, blank |-> FALSE],
      [absent |-> {"ExpOr_count"}, blank |-> FALSE],
      [absent |-> {"Cor_Bo", "Cor_Bo_COGS", "Ships_count"}, blank |-> FALSE] }

RawTable(pop, v) ==
    [len |-> Len(pop),
     col |-> [c \in RawColumns \ v.absent |->
                [i \in 1 .. Len(pop) |->
                    IF c = "ClientID"
                    THEN (IF v.blank /\ i = 1 THEN NAN ELSE R(100 + i))
                    ELSE Cell(pop[i], c)]]]

EmptyTable == [len |-> 0, col |-> <<>>]

\* a local name that no statement has bound yet
Unbound == <<0, -1>>

\* a feature matrix: the names of its columns in order, and its rows
EmptyMatrix == [names |-> <<>>, rows |-> <<>>]

\* the name scaler before line 1774 binds it
NoScaler == [bound |-> FALSE, fitted |-> FALSE, names |-> <<>>, rows |-> {}]

\* the name rf_model before line 1783 binds it
NoModel == [bound |-> FALSE, fitted |-> FALSE, names |-> <<>>, classes |-> {}, score |-> <<>>]

\* before train_test_split has returned
NoSplit == [done |-> FALSE, train |-> {}, test |-> {}]

\* before the button 预测客户盈利性 was pressed
NoPrediction ==
    [asked |-> FALSE, made |-> FALSE, names |-> <<>>, values |-> <<>>,
     form |-> [rev |-> 0, rate |-> 0, cnt |-> 0, type |-> "none"], proba |-> NAN]

\* before create_tab1_analysis has computed its tier figures
NoMetrics == [clients |-> <<>>, profitable |-> <<>>, profit |-> <<>>, revenue |-> <<>>]

(***************************************************************************)
(* State                                                                   *)
(***************************************************************************)
VARIABLES
    pc,                         \* the statement the run is at
    raw,                        \* the caller's table (main's client_data)
    client_data,                \* the engine's working copy
    total_other_expenses_2020,  \* the engine's second argument
    total_five_activity_cost,   \* line 191
    remaining_other_expenses,   \* line 192
    total_commission,           \* line 212
    remaining_fixed_cost,       \* line 215
    total_revenue,              \* line 218
    fixed_cost_rate,            \* line 220 (bound only when total_revenue > 0)
    reported,                   \* conditions the engine reports to its caller
    client_profit_data,         \* the table create_tab3_analysis scores
    available_features,         \* line 1759 (<<>> until it is bound)
    X,                          \* line 1770: the matrix the scaler is fitted on
    scaler,                     \* line 1774
    split,                      \* lines 1778-1780: the rows of X_train and X_test
    rf_model,                   \* line 1783
    prediction,                 \* lines 1984-1998: the single prediction
    X_all,                      \* line 2086: the matrix of the batch prediction
    metrics_data                \* lines 943-1073: the tier figures of create_tab1_analysis

tab3vars == <<available_features, X, scaler, split, rf_model, prediction, X_all>>

vars == <<pc, raw, client_data, total_other_expenses_2020, total_five_activity_cost,
          remaining_other_expenses, total_commission, remaining_fixed_cost,
          total_revenue, fixed_cost_rate, reported, client_profit_data,
          available_features, X, scaler, split, rf_model, prediction, X_all,
          metrics_data>>

aggregates == <<total_five_activity_cost, remaining_other_expenses, total_commission,
                remaining_fixed_cost, total_revenue, fixed_cost_rate>>

\* main, lines 2298-2303: the call of the engine on the loaded table
Init ==
    /\ pc = "start"
    /\ \E pop \in Populations, v \in InputVariants :
            raw = RawTable(pop, v)
    /\ client_data = raw
    /\ total_other_expenses_2020 \in {R(LowExpense), R(HighExpense)}
    /\ total_five_activity_cost = Unbound
    /\ remaining_other_expenses = Unbound
    /\ total_commission = Unbound
    /\ remaining_fixed_cost = Unbound
    /\ total_revenue = Unbound
    /\ fixed_cost_rate = Unbound
    /\ reported = {}
    /\ client_profit_data = EmptyTable
    /\ available_features = <<>>
    /\ X = EmptyMatrix
    /\ scaler = NoScaler
    /\ split = NoSplit
    /\ rf_model = NoModel
    /\ prediction = NoPrediction
    /\ X_all = EmptyMatrix
    /\ metrics_data = NoMetrics

(***************************************************************************)
(* calculate_correct_client_profits, statement by statement                *)
(***************************************************************************)
\* an engine that works on the caller's table itself
CallerTableAliased(caller, working) == working

\* line 149: client_data = client_data.copy(); what the function assigns goes
\* to the copy and the caller's table keeps its value
CallerTable(caller, working) == caller

\* lines 149-153
Prepare ==
    /\ pc = "start"
    /\ client_data' = EnsureClientID(client_data)
    /\ raw' = CallerTable(raw, client_data')
    /\ pc' = "margin"
    /\ UNCHANGED <<metrics_data, total_other_expenses_2020, aggregates, reported, client_profit_data, tab3vars>>

\* lines 156-173
Pass1Margin ==
    /\ pc = "margin"
    /\ client_data' = GrossMarginColumns(client_data)
    /\ pc' = "activity"
    /\ UNCHANGED <<metrics_data, raw, total_other_expenses_2020, aggregates, reported, client_profit_data, tab3vars>>

\* lines 176-188
Pass1Activity ==
    /\ pc = "activity"
    /\ client_data' = ActivityCostColumns(client_data, Len(activities))
    /\ pc' = "sum_activity"
    /\ UNCHANGED <<metrics_data, raw, total_other_expenses_2020, aggregates, reported, client_profit_data, tab3vars>>

\* lines 191-192
AggregateActivity ==
    /\ pc = "sum_activity"
    /\ total_five_activity_cost' = SeriesSum(client_data.col["FiveActivityCost"])
    /\ remaining_other_expenses' = Sub(total_other_expenses_2020, total_five_activity_cost')
    /\ pc' = "commission"
    /\ UNCHANGED <<metrics_data, raw, client_data, total_other_expenses_2020, total_commission,
                   remaining_fixed_cost, total_revenue, fixed_cost_rate, reported,
                   client_profit_data, tab3vars>>

\* lines 195-209
Pass1Commission ==
    /\ pc = "commission"
    /\ client_data' = CommissionColumns(client_data, Len(products))
    /\ pc' = "sum_commission"
    /\ UNCHANGED <<metrics_data, raw, total_other_expenses_2020, aggregates, reported, client_profit_data, tab3vars>>

\* lines 212-215
AggregateCommission ==
    /\ pc = "sum_commission"
    /\ total_commission' = SeriesSum(client_data.col["SalesCommission"])
    /\ remaining_fixed_cost' = RemainingFixedCost(remaining_other_expenses, total_commission')
    /\ pc' = "allocate"
    /\ UNCHANGED <<metrics_data, raw, client_data, total_other_expenses_2020, total_five_activity_cost,
                   remaining_other_expenses, total_revenue, fixed_cost_rate, reported,
                   client_profit_data, tab3vars>>

\* lines 218-223
AllocateFixed ==
    /\ pc = "allocate"
    /\ total_revenue' = SeriesSum(client_data.col["TotalRevenue"])
    /\ fixed_cost_rate' = IF GT(total_revenue', ZERO)
                          THEN FixedCostRate(client_data, remaining_fixed_cost, total_revenue')
                          ELSE Unbound
    /\ client_data' = SetCol(client_data, "AllocatedFixedCost",
                             AllocatedFixedCost(client_data, remaining_fixed_cost, total_revenue'))
    /\ pc' = "net"
    /\ UNCHANGED <<metrics_data, raw, total_other_expenses_2020, total_five_activity_cost,
                   remaining_other_expenses, total_commission, remaining_fixed_cost,
                   reported, client_profit_data, tab3vars>>

\* lines 226-236: 净利润, 净利润率 and the return of the six results
NetProfitAndReturn ==
    /\ pc = "net"
    /\ LET d == SetCol(client_data, "NetProfit", NetProfit(client_data))
       IN  client_data' = SetCol(d, "NetMarginRate", NetMarginRate(d))
    /\ pc' = "done"
    /\ UNCHANGED <<metrics_data, raw, total_other_expenses_2020, aggregates, reported, client_profit_data, tab3vars>>

Next ==
    \/ Prepare
    \/ Pass1Margin
    \/ Pass1Activity
    \/ AggregateActivity
    \/ Pass1Commission
    \/ AggregateCommission
    \/ AllocateFixed
    \/ NetProfitAndReturn

Spec == Init /\ [][Next]_vars

(***************************************************************************)
(* The engine on sheets of two named customers                             *)
(***************************************************************************)
\* a customer selling 瓦楞纸板: 5 shipments, 20 orders, 2 inquiries, 1 design hour
CustomerA ==
    [c \in OptionalColumns |->
        IF c = "Cor_Bo" THEN 10000
        ELSE IF c = "Cor_Bo_COGS" THEN 6000
        ELSE IF c = "Ships_count" THEN 5
        ELSE IF c = "Orders_count" THEN 20
        ELSE IF c = "Queries_count" THEN 2
        ELSE IF c = "Design_count" THEN 1
        ELSE 0]

\* a customer selling 瓦楞纸箱: 2 shipments, 10 orders, 1 expedited order, 1 inquiry
CustomerB ==
    [c \in OptionalColumns |->
        IF c = "Cor_Ca" THEN 5000
        ELSE IF c = "Cor_Ca_COGS" THEN 4000
        ELSE IF c = "Ships_count" THEN 2
        ELSE IF c = "Orders_count" THEN 10
        ELSE IF c = "ExpOr_count" THEN 1
        ELSE IF c = "Queries_count" THEN 1
        ELSE 0]

\* the sheet that lists the given customers in the given order
ScenarioTable(customers) ==
    [len |-> Len(customers),
     col |-> [c \in RawColumns |->
                [i \in 1 .. Len(customers) |->
                    IF c = "ClientID" THEN R(i) ELSE R(customers[i][c])]]]

\* the sheets of one or two of these customers
ScenarioTables ==
    {ScenarioTable(s) : s \in UNION {[1 .. n -> {CustomerA, CustomerB}] : n \in 1 .. 2}}

\* the values of other_expenses_2020 the sheets are run with
ScenarioExpenses == {R(0), R(500), R(50000), R(100000)}

InitScenario ==
    /\ pc = "start"
    /\ raw \in ScenarioTables
    /\ total_other_expenses_2020 \in ScenarioExpenses
    /\ client_data = raw
    /\ total_five_activity_cost = Unbound
    /\ remaining_other_expenses = Unbound
    /\ total_commission = Unbound
    /\ remaining_fixed_cost = Unbound
    /\ total_revenue = Unbound
    /\ fixed_cost_rate = Unbound
    /\ reported = {}
    /\ client_profit_data = EmptyTable
    /\ available_features = <<>>
    /\ X = EmptyMatrix
    /\ scaler = NoScaler
    /\ split = NoSplit
    /\ rf_model = NoModel
    /\ prediction = NoPrediction
    /\ X_all = EmptyMatrix
    /\ metrics_data = NoMetrics

SpecScenario == InitScenario /\ [][Next]_vars

(***************************************************************************)
(* The engine as one function of its two arguments (lines 147-236)         *)
(***************************************************************************)
EngineResult(df, expenses) ==
    LET d0  == EnsureClientID(df)
        d1  == GrossMarginColumns(d0)
        d2  == ActivityCostColumns(d1, Len(activities))
        roe == Sub(expenses, SeriesSum(d2.col["FiveActivityCost"]))
        d3  == CommissionColumns(d2, Len(products))
        rfc == RemainingFixedCost(roe, SeriesSum(d3.col["SalesCommission"]))
        d4  == SetCol(d3, "AllocatedFixedCost",
                      AllocatedFixedCost(d3, rfc, SeriesSum(d3.col["TotalRevenue"])))
        d5  == SetCol(d4, "NetProfit", NetProfit(d4))
    IN  SetCol(d5, "NetMarginRate", NetMarginRate(d5))

(***************************************************************************)
(* create_tab3_analysis: the grading of the scored customers               *)
(***************************************************************************)
\* 高盈利潜力, 中等盈利潜力, 低盈利潜力, 亏损风险
Grades == {"high_potential", "medium_potential", "low_potential", "loss_risk"}

\* thresholds compared with > instead of >=
classify_customerStrict(prob) ==
    IF GT(prob, Rat(8, 10)) THEN "high_potential"
    ELSE IF GT(prob, Rat(6, 10)) THEN "medium_potential"
    ELSE IF GT(prob, Rat(4, 10)) THEN "low_potential"
    ELSE "loss_risk"

\* the two middle branches exchanged
classify_customerSwapped(prob) ==
    IF GE(prob, Rat(8, 10)) THEN "high_potential"
    ELSE IF GE(prob, Rat(6, 10)) THEN "low_potential"
    ELSE IF GE(prob, Rat(4, 10)) THEN "medium_potential"
    ELSE "loss_risk"

\* lines 2099-2107
classify_customer(prob) ==
    IF GE(prob, Rat(8, 10)) THEN "high_potential"
    ELSE IF GE(prob, Rat(6, 10)) THEN "medium_potential"
    ELSE IF GE(prob, Rat(4, 10)) THEN "low_potential"
    ELSE "loss_risk"

\* the values predict_proba[:, 1] is drawn from
Probabilities == {Rat(k, 10 * ProbScale) : k \in 0 .. 10 * ProbScale}

\* the table after line 2094: 预测盈利概率 is attached (the other columns of the
\* table play no part in the grading and are left out)
InitTier ==
    /\ pc = "scored"
    /\ \E n \in 1 .. MaxScored : \E probs \in [1 .. n -> Probabilities] :
            client_profit_data = [len |-> n, col |-> ("PredProba" :> probs)]
    /\ raw = EmptyTable
    /\ client_data = EmptyTable
    /\ total_other_expenses_2020 = Unbound
    /\ total_five_activity_cost = Unbound
    /\ remaining_other_expenses = Unbound
    /\ total_commission = Unbound
    /\ remaining_fixed_cost = Unbound
    /\ total_revenue = Unbound
    /\ fixed_cost_rate = Unbound
    /\ reported = {}
    /\ available_features = <<>>
    /\ X = EmptyMatrix
    /\ scaler = NoScaler
    /\ split = NoSplit
    /\ rf_model = NoModel
    /\ prediction = NoPrediction
    /\ X_all = EmptyMatrix
    /\ metrics_data = NoMetrics

\* line 2109: 客户分级 = 预测盈利概率.apply(classify_customer)
ClassifyCustomers ==
    /\ pc = "scored"
    /\ client_profit_data' =
            SetCol(client_profit_data, "Grade",
                   [i \in Index(client_profit_data) |->
                        classify_customer(client_profit_data.col["PredProba"][i])])
    /\ pc' = "graded"
    /\ UNCHANGED <<metrics_data, raw, client_data, total_other_expenses_2020, aggregates, reported,
                   tab3vars>>

NextTier == ClassifyCustomers

SpecTier == InitTier /\ [][NextTier]_vars

(***************************************************************************)
(* create_tab3_analysis: features, training, single and batch prediction   *)
(***************************************************************************)
\* The customers of the prediction tab: a loss-making customer (an expedited
\* order), a profitable one, one with no business at all (总收入 = 0 and
\* 毛利 = 0) and one with cost but no revenue (总收入 = 0 and 毛利 < 0).
TabRows ==
    { [p |-> 3, rev |-> 1, load |-> 1],
      [p |-> 1, rev |-> 1, load |-> 0],
      [p |-> 2, rev |-> 0, load |-> 0],
      [p |-> 4, rev |-> 0, load |-> 1] }

TabPopulations ==
    UNION {{pop \in [1 .. n -> TabRows] :
                \A i \in 1 .. n - 1 : RowCode(pop[i]) <= RowCode(pop[i + 1])} :
           n \in 1 .. MaxTabCustomers}

\* 客户类型 of the rows: 新客户 and 老客户 in turn, or the same with a value in
\* the first row that is neither
ClientTypeColumn(n, t) ==
    [i \in 1 .. n |->
        IF t = "unmapped" /\ i = 1 THEN "other"
        ELSE IF i % 2 = 1 THEN "new" ELSE "existing"]

\* the shapes of the sheet: the columns it lacks, the column whose cell in the
\* first row is blank, and its 客户类型 column
TabVariants ==
    { [absent |-> {}, hole |-> "none", types |-> "absent"],
      [absent |-> {}, hole |-> "none", types |-> "mixed"],
      [absent |-> {}, hole |-> "none", types |-> "unmapped"],
      [absent |-> {"ExpOr_count"}, hole |-> "none", types |-> "absent"],
      [absent |-> {"ExpOr_count"}, hole |-> "none", types |-> "mixed"],
      [absent |-> Range(activities), hole |-> "none", types |-> "mixed"],
      [absent |-> {}, hole |-> "Cor_Bo", types |-> "mixed"] }

TabRawTable(pop, v) ==
    LET base  == RawTable(pop, [absent |-> v.absent, blank |-> FALSE])
        holed == IF v.hole = "none" THEN base
                 ELSE SetCol(base, v.hole,
                             [i \in Index(base) |->
                                 IF i = 1 THEN NAN ELSE base.col[v.hole][i]])
    IN  IF v.types = "absent" THEN holed
        ELSE SetCol(holed, "ClientType", ClientTypeColumn(Len(pop), v.types))

\* lines 1741-1744, 1749 and 1753: the feature names in the order they are
\* appended
FeatureColumns(df) ==
    products \o activities
        \o (IF "ClientType" \in Columns(df) THEN <<"ClientTypeCode">> ELSE <<>>)
        \o <<"GrossMarginRate">>

\* a map with the two codes exchanged
ClientTypeCodeSwapped(t) ==
    IF t = "new" THEN R(1) ELSE IF t = "existing" THEN R(0) ELSE NAN

\* line 1748: .map({'新客户': 0, '老客户': 1}); any other value maps to NaN
ClientTypeCode(t) ==
    IF t = "new" THEN R(0) ELSE IF t = "existing" THEN R(1) ELSE NAN

\* line 1748
ClientTypeCodeColumn(df) ==
    IF "ClientType" \in Columns(df)
    THEN SetCol(df, "ClientTypeCode",
                [i \in Index(df) |-> ClientTypeCode(df.col["ClientType"][i])])
    ELSE df

\* a feature that keeps the engine's fraction 毛利 / 总收入
MarginRateFractionColumn(df) ==
    SetCol(df, "GrossMarginRate",
           [i \in Index(df) |-> Div(df.col["GrossMargin"][i], df.col["TotalRevenue"][i])])

\* line 1752: 毛利率 = (毛利 / 总收入) * 100, written into the table itself
MarginRatePercentColumn(df) ==
    SetCol(df, "GrossMarginRate",
           [i \in Index(df) |->
                Mul(Div(df.col["GrossMargin"][i], df.col["TotalRevenue"][i]), R(100))])

\* a label column that also counts a net profit of exactly 0 as profitable
LabelColumnNonNegative(df) ==
    [i \in Index(df) |-> IF GE(df.col["NetProfit"][i], ZERO) THEN 1 ELSE 0]

\* line 1756: 是否盈利 = (净利润 > 0).astype(int)
LabelColumn(df) ==
    [i \in Index(df) |-> IF GT(df.col["NetProfit"][i], ZERO) THEN 1 ELSE 0]

\* line 1759
AvailableFeatures(df, feature_columns) ==
    LET Present(c) == c \in Columns(df)
    IN  SelectSeq(feature_columns, Present)

\* .fillna(0) on one cell
FillNa(x) == IF IsNaN(x) THEN ZERO ELSE x

\* lines 1770 and 2086: df[names].fillna(0)
FeatureMatrix(df, names) ==
    [names |-> names,
     rows  |-> [i \in Index(df) |->
                    [k \in 1 .. Len(names) |-> FillNa(df.col[names[k]][i])]]]

\* line 1775: StandardScaler.fit_transform refuses a matrix with an infinite
\* cell (the NaN cells are gone after fillna(0))
ScalerFitRaises(m) ==
    \E i \in DOMAIN m.rows : \E k \in DOMAIN m.rows[i] : ~IsFinite(m.rows[i][k])

\* line 1779: test_size=0.2 gives ceil(0.2 n) test rows and the rest for training
NTest(n) == (n + 4) \div 5

NTrain(n) == n - NTest(n)

ClassCount(y, c) == Cardinality({i \in DOMAIN y : y[i] = c})

\* line 1779, stratify=y: the split refuses an empty training set, a class
\* with a single member, and a training or test set smaller than the number
\* of classes
SplitRaises(y) ==
    LET n == Len(y)
    IN  \/ NTrain(n) = 0
        \/ \E c \in Range(y) : ClassCount(y, c) < 2
        \/ NTrain(n) < Cardinality(Range(y))
        \/ NTest(n) < Cardinality(Range(y))

\* line 1779, stratify=y: the number of training rows of class 0 and of
\* class 1. Each class gets the floor of its proportional share; a row left
\* over goes to the class with the larger remainder, to either on a tie.
TrainCounts(c0, c1, draws) ==
    LET total == c0 + c1
        f0    == (draws * c0) \div total
        f1    == (draws * c1) \div total
        r0    == (draws * c0) % total
        r1    == (draws * c1) % total
    IN  IF f0 + f1 = draws THEN {<<f0, f1>>}
        ELSE IF r0 > r1 THEN {<<f0 + 1, f1>>}
        ELSE IF r1 > r0 THEN {<<f0, f1 + 1>>}
        ELSE {<<f0 + 1, f1>>, <<f0, f1 + 1>>}

\* lines 1778-1780: the splits train_test_split can return (which rows of a
\* class go where depends on the shuffle)
Splits(y) ==
    LET n  == Len(y)
        c0 == ClassCount(y, 0)
        c1 == ClassCount(y, 1)
    IN  { [done |-> TRUE, train |-> (1 .. n) \ t, test |-> t] :
            t \in { s \in SUBSET (1 .. n) :
                      /\ Cardinality(s) = NTest(n)
                      /\ \E a \in TrainCounts(c0, c1, NTrain(n)) :
                            /\ Cardinality({i \in s : y[i] = 0}) = c0 - a[1]
                            /\ Cardinality({i \in s : y[i] = 1}) = c1 - a[2] } }

\* the probabilities a fitted forest gives the class 盈利
ForestVotes == {Rat(3, 10), Rat(8, 10)}

\* lines 1925-1956: what the form of the single prediction holds; the slider
\* 预估毛利率 runs from 5 to 40 and stands at 15 when the form opens
FormInputs ==
    { [rev |-> 0, rate |-> 15, cnt |-> 0, type |-> "new"],
      [rev |-> RevUnit, rate |-> 40, cnt |-> CountUnit, type |-> "existing"] }

\* line 1965
estimated_margin_rate_calc(form) ==
    IF form.rev > 0
    THEN Mul(Div(Mul(R(form.rev), Rat(form.rate, 100)), R(form.rev)), R(100))
    ELSE ZERO

\* lines 1968-1981
input_data(form) ==
    [c \in Range(products) \cup Range(activities) \cup {"ClientTypeCode", "GrossMarginRate"} |->
        IF c = "Cor_Bo" THEN R(form.rev)
        ELSE IF c = "Ships_count" THEN R(form.cnt)
        ELSE IF c = "ClientTypeCode" THEN (IF form.type = "new" THEN R(0) ELSE R(1))
        ELSE IF c = "GrossMarginRate" THEN estimated_margin_rate_calc(form)
        ELSE ZERO]

\* a vector built in the order of the form's fields instead
PredictionFeaturesFormOrder(form, names) ==
    LET fields == products \o activities \o <<"ClientTypeCode", "GrossMarginRate">>
    IN  [names  |-> fields,
         values |-> [k \in 1 .. Len(fields) |-> input_data(form)[fields[k]]]]

\* lines 1984-1989: one value per name of available_features, in its order
PredictionFeatures(form, names) ==
    [names  |-> names,
     values |-> [k \in 1 .. Len(names) |->
                    IF names[k] \in DOMAIN input_data(form)
                    THEN input_data(form)[names[k]] ELSE ZERO]]

\* the vectors a model of this run can be asked about
Vectors(m, names) ==
    Range(m.rows) \cup {PredictionFeatures(form, names).values : form \in FormInputs}

\* lines 1783-1792: the forests fit can return. A forest fitted on one class
\* gives that class probability 1. With fewer than min_samples_split = 5
\* training rows no tree splits its root, and every vector gets the same
\* votes; with more the forest may also tell the profitable training rows
\* from the rest.
FittedForests(m, names, y, train) ==
    LET classes  == {y[i] : i \in train}
        domain   == Vectors(m, names)
        uniform  == {[v \in domain |-> p] : p \in ForestVotes}
        learned  == [v \in domain |->
                        IF \E i \in train : y[i] = 1 /\ m.rows[i] = v
                        THEN Rat(8, 10) ELSE Rat(3, 10)]
        scores   == IF Cardinality(classes) < 2 THEN {[v \in domain |-> R(1)]}
                    ELSE IF Cardinality(train) < 5 THEN uniform
                    ELSE uniform \cup {learned}
    IN  { [bound |-> TRUE, fitted |-> TRUE, names |-> names,
           classes |-> classes, score |-> f] : f \in scores }

\* lines 1995 and 2006, 2090 and 2094: predict_proba has one column per class
\* of the training labels, and column 1 is read
ProbaRaises(model) == Cardinality(model.classes) < 2

\* lines 1997 and 2091: predict
PredictedLabel(prob) == IF GT(prob, Rat(1, 2)) THEN 1 ELSE 0

\* create_tab3_analysis is entered with the sheet main loaded and the table
\* the engine returned for it (main, lines 2303 and 2334)
InitTab3 ==
    /\ pc = "tab3"
    /\ \E pop \in TabPopulations : \E v \in TabVariants : raw = TabRawTable(pop, v)
    /\ total_other_expenses_2020 = R(HighExpense)
    /\ client_profit_data = EngineResult(raw, total_other_expenses_2020)
    /\ client_data = EmptyTable
    /\ total_five_activity_cost = Unbound
    /\ remaining_other_expenses = Unbound
    /\ total_commission = Unbound
    /\ remaining_fixed_cost = Unbound
    /\ total_revenue = Unbound
    /\ fixed_cost_rate = Unbound
    /\ reported = {}
    /\ available_features = <<>>
    /\ X = EmptyMatrix
    /\ scaler = NoScaler
    /\ split = NoSplit
    /\ rf_model = NoModel
    /\ prediction = NoPrediction
    /\ X_all = EmptyMatrix
    /\ metrics_data = NoMetrics

engine == <<raw, client_data, total_other_expenses_2020, aggregates>>

\* lines 1741-1759
PrepareFeatures ==
    /\ pc = "tab3"
    /\ LET feature_columns == FeatureColumns(client_profit_data)
           coded  == ClientTypeCodeColumn(client_profit_data)
           rated  == MarginRatePercentColumn(coded)
           labeled == SetCol(rated, "IsProfitable", LabelColumn(rated))
       IN  /\ client_profit_data' = labeled
           /\ available_features' = AvailableFeatures(labeled, feature_columns)
    /\ pc' = "features"
    /\ UNCHANGED <<metrics_data, engine, reported, X, scaler, split, rf_model, prediction, X_all>>

\* a check that is content with any feature at all
EnoughFeaturesAny(names) == Len(names) >= 1

\* line 1761: len(available_features) >= 8
EnoughFeatures(names) == Len(names) >= 8

\* line 1761, the branch taken
CheckFeatures ==
    /\ pc = "features"
    /\ EnoughFeatures(available_features)
    /\ pc' = "scale"
    /\ UNCHANGED <<metrics_data, engine, reported, client_profit_data, tab3vars>>

\* lines 2075-2077
InsufficientFeatures ==
    /\ pc = "features"
    /\ ~EnoughFeatures(available_features)
    /\ reported' = reported \cup {"insufficient_features"}
    /\ pc' = "batch"
    /\ UNCHANGED <<metrics_data, engine, client_profit_data, tab3vars>>

\* lines 1770-1775
FitScaler ==
    /\ pc = "scale"
    /\ LET m == FeatureMatrix(client_profit_data, available_features)
       IN  /\ ~ScalerFitRaises(m)
           /\ X' = m
           /\ scaler' = [bound |-> TRUE, fitted |-> TRUE, names |-> m.names,
                         rows |-> DOMAIN m.rows]
    /\ pc' = "split"
    /\ UNCHANGED <<metrics_data, engine, reported, client_profit_data, available_features, split,
                   rf_model, prediction, X_all>>

\* lines 1770-1775 raising, then 2071-2073: scaler is bound but not fitted
FitScalerFails ==
    /\ pc = "scale"
    /\ LET m == FeatureMatrix(client_profit_data, available_features)
       IN  /\ ScalerFitRaises(m)
           /\ X' = m
           /\ scaler' = [bound |-> TRUE, fitted |-> FALSE, names |-> <<>>, rows |-> {}]
    /\ reported' = reported \cup {"training_failed"}
    /\ pc' = "batch"
    /\ UNCHANGED <<metrics_data, engine, client_profit_data, available_features, split,
                   rf_model, prediction, X_all>>

\* lines 1778-1780
SplitData ==
    /\ pc = "split"
    /\ ~SplitRaises(client_profit_data.col["IsProfitable"])
    /\ split' \in Splits(client_profit_data.col["IsProfitable"])
    /\ pc' = "fit"
    /\ UNCHANGED <<metrics_data, engine, reported, client_profit_data, available_features, X, scaler,
                   rf_model, prediction, X_all>>

\* lines 1778-1780 raising, then 2071-2073
SplitFails ==
    /\ pc = "split"
    /\ SplitRaises(client_profit_data.col["IsProfitable"])
    /\ reported' = reported \cup {"training_failed"}
    /\ pc' = "batch"
    /\ UNCHANGED <<metrics_data, engine, client_profit_data, tab3vars>>

\* lines 1783-1796
FitModel ==
    /\ pc = "fit"
    /\ rf_model' \in FittedForests(X, available_features,
                                   client_profit_data.col["IsProfitable"], split.train)
    /\ pc' = "review"
    /\ UNCHANGED <<metrics_data, engine, reported, client_profit_data, available_features, X, scaler,
                   split, prediction, X_all>>

\* lines 1858-1895: the comparison of the profitable and the unprofitable
\* 老客户 selects every product and every activity column by name
ReviewRaises(df) ==
    /\ "ClientType" \in Columns(df)
    /\ \E i \in Index(df) : df.col["ClientType"][i] = "existing" /\ GT(df.col["NetProfit"][i], ZERO)
    /\ \E i \in Index(df) : df.col["ClientType"][i] = "existing" /\ GE(ZERO, df.col["NetProfit"][i])
    /\ ~((Range(products) \cup Range(activities)) \subseteq Columns(df))

\* lines 1798-1913
ReviewExistingCustomers ==
    /\ pc = "review"
    /\ ~ReviewRaises(client_profit_data)
    /\ pc' = "predict"
    /\ UNCHANGED <<metrics_data, engine, reported, client_profit_data, tab3vars>>

\* lines 1858-1895 raising, then 2071-2073
ReviewFails ==
    /\ pc = "review"
    /\ ReviewRaises(client_profit_data)
    /\ reported' = reported \cup {"training_failed"}
    /\ pc' = "batch"
    /\ UNCHANGED <<metrics_data, engine, client_profit_data, tab3vars>>

\* lines 1992-2006 with the button pressed: scaler.transform accepts a vector
\* of as many values as it was fitted on
SinglePredict ==
    /\ pc = "predict"
    /\ \E form \in FormInputs :
            LET v == PredictionFeatures(form, available_features)
            IN  /\ Len(v.values) = Len(scaler.names)
                /\ ~ProbaRaises(rf_model)
                /\ prediction' = [asked |-> TRUE, made |-> TRUE, names |-> v.names,
                                  values |-> v.values, form |-> form,
                                  proba |-> rf_model.score[v.values]]
    /\ pc' = "batch"
    /\ UNCHANGED <<metrics_data, engine, reported, client_profit_data, available_features, X, scaler,
                   split, rf_model, X_all>>

\* lines 1992-2006 raising, then 2071-2073
SinglePredictFails ==
    /\ pc = "predict"
    /\ \E form \in FormInputs :
            LET v == PredictionFeatures(form, available_features)
            IN  /\ Len(v.values) # Len(scaler.names) \/ ProbaRaises(rf_model)
                /\ prediction' = [asked |-> TRUE, made |-> FALSE, names |-> v.names,
                                  values |-> v.values, form |-> form, proba |-> NAN]
    /\ reported' = reported \cup {"training_failed"}
    /\ pc' = "batch"
    /\ UNCHANGED <<metrics_data, engine, client_profit_data, available_features, X, scaler,
                   split, rf_model, X_all>>

\* line 1992 with the button not pressed
NoSinglePredict ==
    /\ pc = "predict"
    /\ pc' = "batch"
    /\ UNCHANGED <<metrics_data, engine, reported, client_profit_data, tab3vars>>

\* a batch step that also stores the probabilities as 净利润率
AttachPredictionsOverwriting(df, proba) ==
    LET d1 == SetCol(df, "PredProba", proba)
        d2 == SetCol(d1, "PredLabel", [i \in Index(df) |-> PredictedLabel(proba[i])])
        d3 == SetCol(d2, "PredCorrect",
                     [i \in Index(df) |->
                        IF d2.col["PredLabel"][i] = d2.col["IsProfitable"][i] THEN 1 ELSE 0])
    IN  SetCol(d3, "NetMarginRate", proba)

\* lines 2094-2096: 预测盈利概率, 预测盈利性, 预测准确性
AttachPredictions(df, proba) ==
    LET d1 == SetCol(df, "PredProba", proba)
        d2 == SetCol(d1, "PredLabel", [i \in Index(df) |-> PredictedLabel(proba[i])])
    IN  SetCol(d2, "PredCorrect",
               [i \in Index(df) |->
                    IF d2.col["PredLabel"][i] = d2.col["IsProfitable"][i] THEN 1 ELSE 0])

\* lines 2083-2096
BatchScore ==
    /\ pc = "batch"
    /\ rf_model.bound /\ scaler.bound
    /\ LET m == FeatureMatrix(client_profit_data, available_features)
       IN  /\ scaler.fitted /\ ~ScalerFitRaises(m) /\ ~ProbaRaises(rf_model)
           /\ X_all' = m
           /\ client_profit_data' =
                AttachPredictions(client_profit_data,
                                  [i \in Index(client_profit_data) |-> rf_model.score[m.rows[i]]])
    /\ pc' = "scored"
    /\ UNCHANGED <<metrics_data, engine, reported, available_features, X, scaler, split, rf_model,
                   prediction>>

\* a failed batch that leaves a column of zero probabilities behind
TableAfterFailedBatchZeroScores(df) ==
    SetCol(df, "PredProba", [i \in Index(df) |-> ZERO])

\* lines 2087-2094 raising: the exception leaves the block before the first
\* assignment of line 2094 takes place
TableAfterFailedBatch(df) == df

\* lines 2083-2094 raising, then 2171-2172
BatchScoreFails ==
    /\ pc = "batch"
    /\ rf_model.bound /\ scaler.bound
    /\ LET m == FeatureMatrix(client_profit_data, available_features)
       IN  /\ ~scaler.fitted \/ ScalerFitRaises(m) \/ ProbaRaises(rf_model)
           /\ X_all' = m
    /\ client_profit_data' = TableAfterFailedBatch(client_profit_data)
    /\ reported' = reported \cup {"batch_failed"}
    /\ pc' = "end"
    /\ UNCHANGED <<metrics_data, engine, available_features, X, scaler, split, rf_model, prediction>>

\* line 2083: no model in locals(), the block is skipped
NoBatchScore ==
    /\ pc = "batch"
    /\ ~(rf_model.bound /\ scaler.bound)
    /\ pc' = "end"
    /\ UNCHANGED <<metrics_data, engine, reported, client_profit_data, tab3vars>>

NextTab3 ==
    \/ PrepareFeatures
    \/ CheckFeatures
    \/ InsufficientFeatures
    \/ FitScaler
    \/ FitScalerFails
    \/ SplitData
    \/ SplitFails
    \/ FitModel
    \/ ReviewExistingCustomers
    \/ ReviewFails
    \/ SinglePredict
    \/ SinglePredictFails
    \/ NoSinglePredict
    \/ BatchScore
    \/ BatchScoreFails
    \/ NoBatchScore
    \/ ClassifyCustomers

SpecTab3 == InitTab3 /\ [][NextTab3]_vars

(***************************************************************************)
(* create_tab1_analysis: the gross-margin tiers of the overview            *)
(***************************************************************************)
\* a customer of the overview: 瓦楞纸板 sold for RevUnit dollars or not at all,
\* at a cost of goods sold of tenths/10 of RevUnit dollars, shipped CountUnit times
TierRows == [rev : {0, 1}, tenths : {0, 6, 8, 9}]

TierRowCode(r) == r.tenths * 2 + r.rev

\* the counts and sums act on whole columns: one representative of each population
TierPopulations ==
    UNION {{pop \in [1 .. n -> TierRows] :
                \A i \in 1 .. n - 1 : TierRowCode(pop[i]) <= TierRowCode(pop[i + 1])} :
           n \in 1 .. MaxCustomers}

TierTable(pop) ==
    [len |-> Len(pop),
     col |-> [c \in RawColumns |->
                [i \in 1 .. Len(pop) |->
                    IF c = "ClientID" THEN R(100 + i)
                    ELSE IF c = "Cor_Bo" THEN R(pop[i].rev * RevUnit)
                    ELSE IF c = "Cor_Bo_COGS" THEN Rat(pop[i].tenths * RevUnit, 10)
                    ELSE IF c = "Ships_count" THEN R(CountUnit)
                    ELSE ZERO]]]

\* lines 943, 949, 997, 1003: client_profit_data['毛利率'] >= 0.4
HighMargin(df, i) == GE(df.col["GrossMarginRate"][i], Rat(4, 10))

\* lines 944, 950, 998, 1004: (毛利率 >= 0.2) & (毛利率 < 0.4)
MediumMargin(df, i) ==
    /\ GE(df.col["GrossMarginRate"][i], Rat(2, 10))
    /\ GT(Rat(4, 10), df.col["GrossMarginRate"][i])

\* lines 945, 951, 999, 1005: client_profit_data['毛利率'] <= 0.2
LowMargin(df, i) == GE(Rat(2, 10), df.col["GrossMarginRate"][i])

\* lines 949-951: ... & (client_profit_data['净利润'] > 0)
Profitable(df, i) == GT(df.col["NetProfit"][i], ZERO)

\* df[mask][name].sum() over the rows 1..n: the selected cells that are not NaN
RECURSIVE MaskedSum(_, _, _)
MaskedSum(vals, rows, n) ==
    IF n = 0 THEN ZERO
    ELSE LET rest == MaskedSum(vals, rows, n - 1)
         IN  IF n \in rows /\ ~IsNaN(vals[n]) THEN Add(rest, vals[n]) ELSE rest

\* create_tab1_analysis, lines 246-249: the overview opens on the uploaded
\* sheet and the other expenses of 2020
InitTab1 ==
    /\ pc = "tab1"
    /\ \E pop \in TierPopulations : raw = TierTable(pop)
    /\ total_other_expenses_2020 \in {R(LowExpense), R(HighExpense)}
    /\ client_data = EmptyTable
    /\ total_five_activity_cost = Unbound
    /\ remaining_other_expenses = Unbound
    /\ total_commission = Unbound
    /\ remaining_fixed_cost = Unbound
    /\ total_revenue = Unbound
    /\ fixed_cost_rate = Unbound
    /\ reported = {}
    /\ client_profit_data = EmptyTable
    /\ available_features = <<>>
    /\ X = EmptyMatrix
    /\ scaler = NoScaler
    /\ split = NoSplit
    /\ rf_model = NoModel
    /\ prediction = NoPrediction
    /\ X_all = EmptyMatrix
    /\ metrics_data = NoMetrics

\* line 252: the call of the engine
Tab1Engine ==
    /\ pc = "tab1"
    /\ client_profit_data' = EngineResult(raw, total_other_expenses_2020)
    /\ pc' = "tiers"
    /\ UNCHANGED <<engine, reported, tab3vars, metrics_data>>

\* lines 943-952: the customers of each tier, and the profitable ones among them
TierStatistics ==
    /\ pc = "tiers"
    /\ LET df == client_profit_data
           high_margin_clients == Cardinality({i \in Index(df) : HighMargin(df, i)})
           medium_margin_clients == Cardinality({i \in Index(df) : MediumMargin(df, i)})
           low_margin_clients == Cardinality({i \in Index(df) : LowMargin(df, i)})
           total_clients == df.len
           high_margin_profitable ==
               Cardinality({i \in Index(df) : HighMargin(df, i) /\ Profitable(df, i)})
           medium_margin_profitable ==
               Cardinality({i \in Index(df) : MediumMargin(df, i) /\ Profitable(df, i)})
           low_margin_profitable ==
               Cardinality({i \in Index(df) : LowMargin(df, i) /\ Profitable(df, i)})
       IN  metrics_data' =
               [metrics_data EXCEPT
                    !.clients = <<high_margin_clients, medium_margin_clients,
                                  low_margin_clients, total_clients>>,
                    !.profitable = <<high_margin_profitable, medium_margin_profitable,
                                     low_margin_profitable,
                                     high_margin_profitable + medium_margin_profitable
                                         + low_margin_profitable>>]
    /\ pc' = "contributions"
    /\ UNCHANGED <<engine, reported, client_profit_data, tab3vars>>

\* lines 997-1007 and the columns 利润贡献 and 收入贡献 of lines 1062-1093
TierContributions ==
    /\ pc = "contributions"
    /\ LET df == client_profit_data
           high == {i \in Index(df) : HighMargin(df, i)}
           medium == {i \in Index(df) : MediumMargin(df, i)}
           low == {i \in Index(df) : LowMargin(df, i)}
           profit == df.col["NetProfit"]
           revenue == df.col["TotalRevenue"]
       IN  metrics_data' =
               [metrics_data EXCEPT
                    !.profit = <<MaskedSum(profit, high, df.len),
                                 MaskedSum(profit, medium, df.len),
                                 MaskedSum(profit, low, df.len),
                                 SeriesSum(profit)>>,
                    !.revenue = <<MaskedSum(revenue, high, df.len),
                                  MaskedSum(revenue, medium, df.len),
                                  MaskedSum(revenue, low, df.len),
                                  SeriesSum(revenue)>>]
    /\ pc' = "table"
    /\ UNCHANGED <<engine, reported, client_profit_data, tab3vars>>

NextTab1 ==
    \/ Tab1Engine
    \/ TierStatistics
    \/ TierContributions

SpecTab1 == InitTab1 /\ [][NextTab1]_vars

(***************************************************************************)
(* Properties                                                              *)
(***************************************************************************)
Done == pc = "done"

Has(c) == c \in Columns(client_data)

Val(c, i) == client_data.col[c][i]

\* the sum of a column over every row, written without Series.sum()
RECURSIVE SumAll(_)
SumAll(s) == IF s = <<>> THEN ZERO ELSE Add(Head(s), SumAll(Tail(s)))

Allocated ==
    Add(Add(SumAll(client_data.col["FiveActivityCost"]),
            SumAll(client_data.col["SalesCommission"])),
        SumAll(client_data.col["AllocatedFixedCost"]))

PopulationRevenue == SumAll(client_data.col["TotalRevenue"])

\* C1 as stated: for every population and every total_other_expenses the
\* activity costs, commissions and allocated fixed costs of all customers
\* add up to total_other_expenses.
C1_ConservationEveryPopulation ==
    Done => Allocated = total_other_expenses_2020

\* C1 amended: whenever the population's total revenue is greater than 0, the
\* activity costs, commissions and allocated fixed costs of all customers add
\* up to total_other_expenses.
C1_Conservation ==
    (Done /\ GT(PopulationRevenue, ZERO)) => Allocated = total_other_expenses_2020

C1_Witness ==
    /\ Done
    /\ client_data.len = 2
    /\ \A i \in Index(client_data) :
            /\ GT(Val("TotalRevenue", i), ZERO)
            /\ GT(Val("FiveActivityCost", i), ZERO)
            /\ GT(Val("SalesCommission", i), ZERO)
            /\ Val("AllocatedFixedCost", i) # ZERO
    /\ Allocated = total_other_expenses_2020

\* C2: in the engine's output every customer's net_profit equals that row's
\* gross_margin - variable_activity_cost - allocated_fixed_cost - sales_commission.
C2_AllocationIdentity ==
    Done => \A i \in Index(client_data) :
                Val("NetProfit", i) =
                    Sub(Sub(Sub(Val("GrossMargin", i), Val("FiveActivityCost", i)),
                            Val("AllocatedFixedCost", i)),
                        Val("SalesCommission", i))

C2_Witness ==
    /\ Done
    /\ \E i \in Index(client_data) :
            /\ GT(Val("SalesCommission", i), ZERO)
            /\ GT(Val("FiveActivityCost", i), ZERO)
            /\ Val("AllocatedFixedCost", i) # ZERO
            /\ Val("GrossMargin", i) # ZERO
            /\ IsFinite(Val("NetProfit", i))

\* C3: once any Pass-2 result exists, every customer's Pass-1 output exists,
\* the aggregates are the sums over the complete population, and every
\* customer's allocated fixed cost is its revenue times the one rate derived
\* from those complete totals.
C3_BarrierOrdering ==
    /\ Has("NetProfit") => Has("AllocatedFixedCost")
    /\ Has("AllocatedFixedCost") =>
        /\ {"TotalRevenue", "GrossMargin", "FiveActivityCost", "SalesCommission"}
                \subseteq Columns(client_data)
        /\ total_five_activity_cost = SumAll(client_data.col["FiveActivityCost"])
        /\ total_commission = SumAll(client_data.col["SalesCommission"])
        /\ total_revenue = PopulationRevenue
        /\ remaining_fixed_cost =
                Sub(Sub(total_other_expenses_2020, SumAll(client_data.col["FiveActivityCost"])),
                    SumAll(client_data.col["SalesCommission"]))
        /\ GT(PopulationRevenue, ZERO) =>
                \A i \in Index(client_data) :
                    Val("AllocatedFixedCost", i) =
                        Mul(Val("TotalRevenue", i), Div(remaining_fixed_cost, PopulationRevenue))

C3_Witness ==
    /\ pc = "net"
    /\ client_data.len = 2
    /\ \A i \in Index(client_data) :
            /\ GT(Val("TotalRevenue", i), ZERO)
            /\ GT(Val("FiveActivityCost", i), ZERO)
            /\ Val("AllocatedFixedCost", i) # ZERO

\* C4: whenever remaining_fixed_cost is negative the allocation output
\* carries a reported condition, so no negative fixed cost is allocated
\* silently.
C4_NegativeResidualFlagged ==
    (Done /\ GT(ZERO, remaining_fixed_cost)) =>
        \/ reported # {}
        \/ \A i \in Index(client_data) : GE(Val("AllocatedFixedCost", i), ZERO)

\* C5: a customer whose product revenues are all zero gets gross_margin_rate 0
\* and net_margin_rate 0, never NaN or an infinity.
C5_ZeroRevenueRates ==
    Done => \A i \in Index(client_data) :
                Val("TotalRevenue", i) = ZERO =>
                    /\ Val("GrossMarginRate", i) = ZERO
                    /\ Val("NetMarginRate", i) = ZERO

\* C6: a customer whose product revenues are all zero is allocated exactly 0
\* fixed cost, in every population (also one whose total revenue is 0).
C6_ZeroRevenueFixedCost ==
    Has("AllocatedFixedCost") =>
        \A i \in Index(client_data) :
            Val("TotalRevenue", i) = ZERO => Val("AllocatedFixedCost", i) = ZERO

C6_Witness ==
    /\ Done
    /\ remaining_fixed_cost # ZERO
    /\ \E i, j \in Index(client_data) :
            /\ Val("TotalRevenue", i) = ZERO
            /\ Val("AllocatedFixedCost", i) = ZERO
            /\ GT(Val("TotalRevenue", j), ZERO)
            /\ Val("AllocatedFixedCost", j) # ZERO

\* the rate the engine applies: revenue * 0 where no rate was computed
AppliedRate == IF fixed_cost_rate = Unbound THEN ZERO ELSE fixed_cost_rate

\* C7 as stated: for every population and total_other_expenses,
\* fixed_cost_rate * total_revenue_all equals remaining_fixed_cost.
C7_RateConsistencyEveryPopulation ==
    pc \in {"net", "done"} => Mul(AppliedRate, PopulationRevenue) = remaining_fixed_cost

\* C7 amended: whenever the population's total revenue is greater than 0,
\* fixed_cost_rate * total_revenue_all equals remaining_fixed_cost.
C7_RateConsistency ==
    (pc \in {"net", "done"} /\ GT(PopulationRevenue, ZERO)) =>
        /\ fixed_cost_rate # Unbound
        /\ Mul(fixed_cost_rate, PopulationRevenue) = remaining_fixed_cost

C7_Witness ==
    /\ Done
    /\ client_data.len = 2
    /\ GT(PopulationRevenue, ZERO)
    /\ fixed_cost_rate # Unbound
    /\ fixed_cost_rate[2] > 1
    /\ Mul(fixed_cost_rate, PopulationRevenue) = remaining_fixed_cost

\* row i of the caller's table came without an identifier
LacksIdentifier(i) == "ClientID" \notin Columns(raw) \/ IsNaN(raw.col["ClientID"][i])

\* C8 as stated: a row without an identifier is fatal for that row; the engine
\* never produces allocation results for a row whose identifier was not supplied.
C8_MissingIdentityFatal ==
    \A i \in Index(raw) : LacksIdentifier(i) => ~Has("NetProfit")

\* C8 amended: a missing identifier is not fatal: when the identifier column
\* is absent the engine numbers the rows 1..n by position (a supplied column
\* is kept as it is, blank cells included), and it produces allocation
\* results for every input row, also those whose identifier was not supplied.
C8_MissingIdentityNumbered ==
    /\ pc # "start" =>
        /\ Has("ClientID")
        /\ \A i \in Index(raw) :
                Val("ClientID", i) =
                    IF "ClientID" \in Columns(raw) THEN raw.col["ClientID"][i] ELSE R(i)
    /\ Done =>
        /\ client_data.len = raw.len
        /\ Has("NetProfit")
        /\ DOMAIN client_data.col["NetProfit"] = Index(raw)

C8_Witness ==
    /\ Done
    /\ "ClientID" \notin Columns(raw)
    /\ raw.len = 2
    /\ Val("ClientID", 1) = R(1)
    /\ Val("ClientID", 2) = R(2)
    /\ IsFinite(Val("NetProfit", 2))

\* the caller's table with every absent optional column present and 0
ZeroFilled(df) ==
    [df EXCEPT !.col = [c \in (DOMAIN df.col) \cup OptionalColumns |->
                            IF c \in DOMAIN df.col THEN df.col[c] ELSE Broadcast(df, ZERO)]]

DerivedTotals == {"TotalRevenue", "TotalCOGS", "FiveActivityCost", "SalesCommission", "NetProfit"}

\* C9: with any product-revenue, product-cost or activity column absent the
\* engine still completes, and every derived total equals what the engine
\* yields when that column is present with value 0 for every customer.
C9_AbsentColumnIsZero ==
    Done => LET ref == EngineResult(ZeroFilled(raw), total_other_expenses_2020)
            IN  \A c \in DerivedTotals : Has(c) /\ client_data.col[c] = ref.col[c]

C9_Witness ==
    /\ Done
    /\ ~(OptionalColumns \subseteq Columns(raw))
    /\ "Cor_Ca" \notin Columns(raw)
    /\ \E i \in Index(client_data) :
            /\ GT(Val("TotalRevenue", i), ZERO)
            /\ GT(Val("TotalCOGS", i), ZERO)
            /\ IsFinite(Val("NetProfit", i))

\* C10: classify_customer maps every probability p in [0,1] to exactly one
\* tier: p >= 0.8 high-potential, 0.6 <= p < 0.8 medium-potential,
\* 0.4 <= p < 0.6 low-potential, p < 0.4 loss-risk; the boundary values belong
\* to the higher tier.
C10_TierMapping ==
    pc = "graded" =>
        \A i \in Index(client_profit_data) :
            LET p == client_profit_data.col["PredProba"][i]
                g == client_profit_data.col["Grade"][i]
            IN  /\ g \in Grades
                /\ (10 * p[1] >= 8 * p[2]) => g = "high_potential"
                /\ (10 * p[1] >= 6 * p[2] /\ 10 * p[1] < 8 * p[2]) => g = "medium_potential"
                /\ (10 * p[1] >= 4 * p[2] /\ 10 * p[1] < 6 * p[2]) => g = "low_potential"
                /\ (10 * p[1] < 4 * p[2]) => g = "loss_risk"

C10_Witness ==
    /\ pc = "graded"
    /\ client_profit_data.len = 2
    /\ client_profit_data.col["PredProba"][1] = Rat(8, 10)
    /\ client_profit_data.col["Grade"][1] = "high_potential"
    /\ client_profit_data.col["PredProba"][2] = Rat(4, 10)
    /\ client_profit_data.col["Grade"][2] = "low_potential"

\* the order of the tiers: loss-risk < low < medium < high
TierRank(g) ==
    IF g = "loss_risk" THEN 0
    ELSE IF g = "low_potential" THEN 1
    ELSE IF g = "medium_potential" THEN 2
    ELSE 3

\* C11: for any two graded probabilities p1 < p2 the tier rank of p1 is at
\* most the tier rank of p2.
C11_TierMonotonic ==
    pc = "graded" =>
        \A i, j \in Index(client_profit_data) :
            LET p1 == client_profit_data.col["PredProba"][i]
                p2 == client_profit_data.col["PredProba"][j]
            IN  p1[1] * p2[2] < p2[1] * p1[2] =>
                    TierRank(client_profit_data.col["Grade"][i])
                        <= TierRank(client_profit_data.col["Grade"][j])

C11_Witness ==
    /\ pc = "graded"
    /\ client_profit_data.len = 2
    /\ client_profit_data.col["PredProba"][1] = Rat(5, 10)
    /\ client_profit_data.col["PredProba"][2] = Rat(7, 10)
    /\ client_profit_data.col["Grade"][1] = "low_potential"
    /\ client_profit_data.col["Grade"][2] = "medium_potential"

\* the columns calculate_correct_client_profits derives for every customer
AllocationFields ==
    {"TotalRevenue", "TotalCOGS", "GrossMargin", "GrossMarginRate", "FiveActivityCost",
     "SalesCommission", "AllocatedFixedCost", "NetProfit", "NetMarginRate"}

\* what the engine returned for the sheet of this run
EngineOutput == EngineResult(raw, total_other_expenses_2020)

\* C12: at every stage of create_tab3_analysis every allocation field of the
\* table main holds still has the value the engine computed for it.
C12_StageOutputsImmutable ==
    \A c \in AllocationFields :
        /\ c \in Columns(client_profit_data)
        /\ client_profit_data.col[c] = EngineOutput.col[c]

\* a step of the batch block (lines 2082-2109) leaves every column the table
\* already had as it was, and only adds columns
BatchFrameStep ==
    pc \in {"batch", "scored"} =>
        \A c \in Columns(client_profit_data) :
            /\ c \in Columns(client_profit_data')
            /\ client_profit_data'.col[c] = client_profit_data.col[c]

\* C13: every step of batch scoring keeps the value of every field the table
\* already had, the allocation fields among them; it only attaches new fields.
C13_BatchScoringFrame == [][BatchFrameStep]_vars

C13_Witness ==
    /\ pc = "graded"
    /\ raw # EmptyTable
    /\ {"PredProba", "PredLabel", "Grade"} \subseteq Columns(client_profit_data)
    /\ AllocationFields \subseteq Columns(client_profit_data)
    /\ client_profit_data.col["NetProfit"] = EngineOutput.col["NetProfit"]
    /\ \E i \in Index(client_profit_data) :
            GT(client_profit_data.col["NetProfit"][i], ZERO)

\* C14: once the data is split, the rows the scaler was fitted on all belong
\* to the training split.
C14_ScalerFittedOnTrainingSplit ==
    (split.done /\ scaler.fitted) => scaler.rows \subseteq split.train

\* the labels have fewer than two classes, or fewer than 2 examples of one
InsufficientLabels(y) == \E c \in {0, 1} : Cardinality({i \in DOMAIN y : y[i] = c}) < 2

\* C15: when the labels are insufficient no model is ever bound, and no
\* customer gets a probability or a tier.
C15_InsufficientLabelsAbort ==
    ("IsProfitable" \in Columns(client_profit_data)
        /\ InsufficientLabels(client_profit_data.col["IsProfitable"]))
    => /\ ~rf_model.bound
       /\ "PredProba" \notin Columns(client_profit_data)
       /\ "Grade" \notin Columns(client_profit_data)

\* C16: a model is fitted only if no feature has the same value in every
\* training row.
C16_ConstantFeatureFails ==
    rf_model.fitted =>
        \A k \in 1 .. Len(X.names) :
            \E i, j \in split.train : X.rows[i][k] # X.rows[j][k]

\* a probability or a tier exists in the state
Scored ==
    \/ prediction.made
    \/ "PredProba" \in Columns(client_profit_data)
    \/ "Grade" \in Columns(client_profit_data)

\* a probability or a tier exists only if training bound and fitted both the
\* model and the scaler
ScoredOnlyWithModel ==
    Scored => (rf_model.bound /\ rf_model.fitted /\ scaler.bound /\ scaler.fitted)

\* a prediction step that produces no probability changes neither the table
\* nor the model and the scaler the other prediction uses
FailedPredictionStep ==
    (pc \in {"predict", "batch"} /\ pc' \in {"batch", "end"}
        /\ ~prediction'.made /\ "PredProba" \notin Columns(client_profit_data))
    => /\ client_profit_data' = client_profit_data
       /\ rf_model' = rf_model
       /\ scaler' = scaler

C18_StableFeatureOrder ==
    /\ prediction.asked => prediction.names = X.names
    /\ X_all # EmptyMatrix => X_all.names = X.names
    /\ scaler.fitted => scaler.names = X.names
    /\ rf_model.fitted => rf_model.names = X.names

C18_Witness ==
    /\ pc = "graded"
    /\ prediction.asked /\ prediction.made
    /\ X_all # EmptyMatrix
    /\ Len(X.names) = 10
    /\ prediction.names = X_all.names

\* x is a number greater than 0, or +inf
StrictlyPositive(x) == x[1] > 0 /\ x[2] >= 0

\* C19: from the moment the labels are written until the model is fitted on
\* them, every customer's label 是否盈利 is 1 when the engine's 净利润 for that
\* customer is strictly greater than 0 and 0 otherwise; a 净利润 of exactly 0
\* is labelled 0.
C19_LabelDefinition ==
    pc \in {"features", "scale", "split", "fit"} =>
        LET net_profit == EngineOutput.col["NetProfit"]
        IN  \A i \in Index(client_profit_data) :
                client_profit_data.col["IsProfitable"][i] =
                    (IF StrictlyPositive(net_profit[i]) THEN 1 ELSE 0)

C19_Witness ==
    /\ pc = "fit"
    /\ \E i, j \in Index(client_profit_data) :
            /\ client_profit_data.col["IsProfitable"][i] = 0
            /\ client_profit_data.col["IsProfitable"][j] = 1
            /\ EngineOutput.col["NetProfit"][i] = ZERO

\* lines 160-163 and 182-188: the engine adds the cell of a column the sheet
\* has as it is, and adds nothing (zero) for a column the sheet lacks
EngineUsed(f, i) == IF f \in Columns(raw) THEN raw.col[f][i] ELSE ZERO

\* C20: the value the feature matrix carries for a product or activity input
\* of a customer equals the value the engine used for it.
C20_IdenticalZeroFill ==
    X # EmptyMatrix =>
        \A k \in 1 .. Len(X.names) :
            X.names[k] \in Range(products) \cup Range(activities) =>
                \A i \in DOMAIN X.rows : X.rows[i][k] = EngineUsed(X.names[k], i)

\* C21: with total_other_expenses = 100000 and the sheet of customer A followed
\* by customer B the engine yields activity costs 174.4 and 315.7, commissions
\* 300 and 150, gross margins 4000 and 1000, totals 490.1 and 450, a residual
\* of 99059.9, the rate 99059.9 / 15000 and 10000 * 99059.9 / 15000 allocated
\* to A.
C21_ConcreteScenario ==
    (Done /\ raw = ScenarioTable(<<CustomerA, CustomerB>>)
          /\ total_other_expenses_2020 = <<100000, 1>>)
    => /\ Val("FiveActivityCost", 1) = <<872, 5>>
       /\ Val("SalesCommission", 1) = <<300, 1>>
       /\ Val("GrossMargin", 1) = <<4000, 1>>
       /\ Val("FiveActivityCost", 2) = <<3157, 10>>
       /\ Val("SalesCommission", 2) = <<150, 1>>
       /\ Val("GrossMargin", 2) = <<1000, 1>>
       /\ total_five_activity_cost = <<4901, 10>>
       /\ total_commission = <<450, 1>>
       /\ remaining_fixed_cost = <<990599, 10>>
       /\ fixed_cost_rate = <<990599, 150000>>
       /\ Val("AllocatedFixedCost", 1) = <<990599, 15>>

C21_Witness ==
    /\ Done
    /\ raw = ScenarioTable(<<CustomerA, CustomerB>>)
    /\ total_other_expenses_2020 = <<100000, 1>>
    /\ client_data.len = 2
    /\ Val("AllocatedFixedCost", 1) = <<990599, 15>>

\* C22: when fewer than 8 of the feature columns are available, no scaler and
\* no model is ever bound, the data is not split, no customer gets a
\* probability or a tier, and the shortage is reported once the check ran.
C22_InsufficientFeaturesAbort ==
    (pc # "tab3" /\ Len(available_features) < 8)
    => /\ ~scaler.bound /\ ~rf_model.bound /\ ~split.done
       /\ ~Scored
       /\ pc # "features" => "insufficient_features" \in reported

C22_Witness ==
    /\ pc = "end"
    /\ Len(available_features) = 7
    /\ "insufficient_features" \in reported
    /\ ~rf_model.bound /\ ~scaler.bound

\* the returned table has one row per row of the caller's table, in the same
\* order, and every column of the caller's table with the same values
SameCustomers ==
    Done => /\ client_data.len = raw.len
            /\ \A c \in Columns(raw) :
                    /\ c \in Columns(client_data)
                    /\ client_data.col[c] = raw.col[c]

\* no step of the engine changes the caller's table
InputUntouched == raw' = raw

\* C23: the engine returns one row per input customer in the same order with
\* the same 客户ID and the same revenue, cost and activity values, and no step
\* of it changes the caller's table.
C23_IdentitiesPreserved == []SameCustomers /\ [][InputUntouched]_vars

C23_Witness ==
    /\ Done
    /\ raw.len = 2
    /\ "ClientID" \in Columns(raw)
    /\ client_data.col["ClientID"] = raw.col["ClientID"]
    /\ "NetProfit" \in Columns(client_data)
    /\ "NetProfit" \notin Columns(raw)
    /\ raw.col["ClientID"][1] # raw.col["ClientID"][2]

\* C25: when the population's total revenue is not greater than 0, no rate is
\* computed by dividing by it and every customer is allocated exactly 0 fixed
\* cost (the rate applied is 0), whatever remaining_fixed_cost is.
C25_ZeroPopulationRevenue ==
    (pc \in {"net", "done"} /\ ~GT(PopulationRevenue, ZERO))
    => /\ fixed_cost_rate = Unbound
       /\ AppliedRate = ZERO
       /\ \A i \in Index(client_data) : Val("AllocatedFixedCost", i) = ZERO

C25_Witness ==
    /\ Done
    /\ client_data.len = 2
    /\ PopulationRevenue = ZERO
    /\ GT(ZERO, remaining_fixed_cost)
    /\ \A i \in Index(client_data) : Val("AllocatedFixedCost", i) = ZERO

\* the commission rate of the k-th product: 3% for 瓦楞纸板 and 瓦楞纸箱,
\* 2% for 模切盒, 1% for 组合纸箱 and 重型瓦楞纸
TableRate(k) == IF k <= 2 THEN <<3, 100>> ELSE IF k = 3 THEN <<1, 50>> ELSE <<1, 100>>

\* the sum of customer i's per-product commissions over the first k products
\* the sheet has
RECURSIVE CommissionSum(_, _)
CommissionSum(i, k) ==
    IF k = 0 THEN ZERO
    ELSE IF products[k] \in Columns(raw)
         THEN Add(CommissionSum(i, k - 1), Val(CommissionColumn[products[k]], i))
         ELSE CommissionSum(i, k - 1)

\* C26: for every customer and each product the sheet has, the per-product
\* commission is the product's revenue times its fixed rate (3%, 3%, 2%, 1%,
\* 1%), and 分摊销售佣金 is the sum of the per-product commissions.
C26_CommissionComputation ==
    pc \in {"sum_commission", "allocate", "net", "done"} =>
        \A i \in Index(client_data) :
            /\ \A k \in 1 .. Len(products) :
                    products[k] \in Columns(raw) =>
                        Val(CommissionColumn[products[k]], i)
                            = Mul(raw.col[products[k]][i], TableRate(k))
            /\ Val("SalesCommission", i) = CommissionSum(i, Len(products))

C26_Witness ==
    /\ Done
    /\ client_data.len = 2
    /\ \E i, j \in Index(client_data) :
            /\ GT(Val("Die_Bo", i), ZERO)
            /\ Val("SalesCommission", i) = Mul(Val("Die_Bo", i), <<1, 50>>)
            /\ GT(Val("HD_Cor", j), ZERO)
            /\ Val("SalesCommission", j) = Mul(Val("HD_Cor", j), <<1, 100>>)

\* the 客户类型编码 component of row i of a feature matrix is 0 or 1, 1 for a
\* 老客户 and 0 for a 新客户
TypeComponentsBinary(m) ==
    \A k \in 1 .. Len(m.names) :
        m.names[k] = "ClientTypeCode" =>
            \A i \in DOMAIN m.rows :
                /\ m.rows[i][k] \in {<<0, 1>>, <<1, 1>>}
                /\ raw.col["ClientType"][i] = "existing" => m.rows[i][k] = <<1, 1>>
                /\ raw.col["ClientType"][i] = "new" => m.rows[i][k] = <<0, 1>>

\* C27: in the training matrix, the batch matrix and the vector of the single
\* prediction the customer-type component is 1 for an existing customer, 0
\* for a new one, and never anything but 0 or 1.
C27_CustomerTypeIndicator ==
    /\ TypeComponentsBinary(X)
    /\ TypeComponentsBinary(X_all)
    /\ prediction.asked =>
            \A k \in 1 .. Len(prediction.names) :
                prediction.names[k] = "ClientTypeCode" =>
                    prediction.values[k] =
                        (IF prediction.form.type = "existing" THEN <<1, 1>> ELSE <<0, 1>>)

C27_Witness ==
    /\ pc = "graded"
    /\ prediction.made
    /\ prediction.form.type = "existing"
    /\ \E k \in 1 .. Len(X_all.names) :
            /\ X_all.names[k] = "ClientTypeCode"
            /\ prediction.values[k] = <<1, 1>>
            /\ raw.col["ClientType"][1] = "other"
            /\ X_all.rows[1][k] = <<0, 1>>
            /\ X_all.rows[2][k] = <<1, 1>>

\* C28: whenever the population's total revenue is greater than 0, the sum of
\* 净利润 over the returned customers equals the sum of 毛利 over them minus
\* total_other_expenses.
C28_ProfitReconciliation ==
    (Done /\ GT(PopulationRevenue, ZERO)) =>
        SumAll(client_data.col["NetProfit"])
            = Sub(SumAll(client_data.col["GrossMargin"]), total_other_expenses_2020)

C28_Witness ==
    /\ Done
    /\ client_data.len = 2
    /\ GT(Val("TotalRevenue", 1), ZERO)
    /\ GT(Val("TotalRevenue", 2), ZERO)
    /\ GT(Val("FiveActivityCost", 2), ZERO)
    /\ GT(SumAll(client_data.col["GrossMargin"]), total_other_expenses_2020)
    /\ GT(SumAll(client_data.col["NetProfit"]), ZERO)

\* the tiers a customer of the scored overview is counted in
TiersOf(df, i) ==
    {t \in {"high", "medium", "low"} :
        \/ t = "high" /\ HighMargin(df, i)
        \/ t = "medium" /\ MediumMargin(df, i)
        \/ t = "low" /\ LowMargin(df, i)}

\* C29: once the overview has built its tier table, every customer is counted
\* in exactly one of the three gross-margin tiers, the three customer counts
\* add up to total_clients, and the three profit sums and the three revenue
\* sums add up to the totals of the 总计 row
C29_TiersPartition ==
    pc = "table" =>
        /\ \A i \in Index(client_profit_data) :
                Cardinality(TiersOf(client_profit_data, i)) = 1
        /\ metrics_data.clients[1] + metrics_data.clients[2] + metrics_data.clients[3]
                = metrics_data.clients[4]
        /\ Add(Add(metrics_data.profit[1], metrics_data.profit[2]), metrics_data.profit[3])
                = metrics_data.profit[4]
        /\ Add(Add(metrics_data.revenue[1], metrics_data.revenue[2]), metrics_data.revenue[3])
                = metrics_data.revenue[4]

\* the place of 毛利率 in a list of feature names
MarginRateAt(names) == CHOOSE k \in 1 .. Len(names) : names[k] = "GrossMarginRate"

\* gross_margin / total_revenue * 100 as a feature cell: a rate that is not a
\* number (nothing sold at no cost) reads 0
Percentage(margin, revenue) == FillNa(Mul(Div(margin, revenue), R(100)))

\* every row of the feature matrix m carries the percentage of its customer
InPercent(m) ==
    \A i \in DOMAIN m.rows :
        m.rows[i][MarginRateAt(m.names)]
            = Percentage(client_profit_data.col["GrossMargin"][i],
                         client_profit_data.col["TotalRevenue"][i])

\* the rows of the table with the revenue and the gross margin of the form
SameEconomics(revenue, margin) ==
    {i \in Index(client_profit_data) :
        /\ client_profit_data.col["TotalRevenue"][i] = revenue
        /\ client_profit_data.col["GrossMargin"][i] = margin}

\* C30: the gross-margin-rate feature is gross_margin / total_revenue * 100 in
\* the matrix the scaler and the model are trained on, in the vector of the
\* single prediction and in the matrix of the batch scoring, and a customer of
\* the table with the revenue and the gross margin entered in the form has the
\* form's feature value in both matrices
C30_MarginFeatureOneScale ==
    /\ X # EmptyMatrix => InPercent(X)
    /\ X_all # EmptyMatrix => InPercent(X_all)
    /\ prediction.asked =>
            LET revenue == R(prediction.form.rev)
                margin  == Mul(revenue, Rat(prediction.form.rate, 100))
                value   == prediction.values[MarginRateAt(prediction.names)]
            IN  /\ value = Percentage(margin, revenue)
                /\ \A i \in SameEconomics(revenue, margin) :
                        /\ X.rows[i][MarginRateAt(X.names)] = value
                        /\ X_all # EmptyMatrix =>
                                X_all.rows[i][MarginRateAt(X_all.names)] = value

C30_Witness ==
    /\ pc = "scored"
    /\ prediction.made
    /\ prediction.form.rev > 0
    /\ X_all # EmptyMatrix
    /\ \E i \in SameEconomics(R(prediction.form.rev),
                              Mul(R(prediction.form.rev), Rat(prediction.form.rate, 100))) :
            X_all.rows[i][MarginRateAt(X_all.names)] = R(prediction.form.rate)

====
